---------------------------- MODULE Spec2Model ----------------------------
(***************************************************************************)
(* Model of src/name_utils.py: normalize_name_for_blocking and its three   *)
(* helpers.  A string is a sequence of Unicode code points (naturals); a   *)
(* call of normalize_name_for_blocking is a run of the state machine, one  *)
(* action per statement group of the function.                             *)
(***************************************************************************)
EXTENDS Naturals, Sequences, FiniteSets

VARIABLES
    pieces,     \* ghost: how the argument was assembled (indices into PieceText)
    arg,        \* the argument of the call: [type, str]
    text,       \* the local variable `text`
    pc,         \* the statement about to run
    raised,     \* TRUE when an exception left the function
    reverted,   \* ghost: matches for which decode_sequence fell back, per pass
    passIn,     \* ghost: `text` as it was handed to the last re.sub of the decoder
    sufArg,     \* ghost: the value handed to _strip_suffixes
    steps       \* ghost: how many statements after the isinstance test have run

vars == <<pieces, arg, text, pc, raised, reverted, passIn, sufArg, steps>>

---------------------------------------------------------------------------
(* Characters                                                              *)

Backslash  == 92
LetterX    == 120
LetterS    == 115
Space      == 32
Period     == 46
Comma      == 44
Hyphen     == 45
Apostrophe == 39

\* str.isspace(): the characters str.strip() and str.split() treat as whitespace
WhitespaceChars ==
    (9..13) \cup (28..32) \cup {133, 160, 5760} \cup (8192..8202)
        \cup {8232, 8233, 8239, 8287, 12288}

IsSpace(c) == c \in WhitespaceChars

\* [0-9a-fA-F]
IsHexDigit(c) == c \in (48..57) \cup (65..70) \cup (97..102)

\* int(h, 16) of one digit
HexVal(c) ==
    IF c \in 48..57 THEN c - 48
    ELSE IF c \in 65..70 THEN c - 55
    ELSE c - 87

\* unicodedata.category(ch) == "Mn", for the combining diacritical marks block
IsMn(c) == c \in 768..879

\* canonical decomposition of U+00C0..U+00FF (index c - 191)
LatinDecomp ==
  << <<65, 768>>, <<65, 769>>, <<65, 770>>, <<65, 771>>, <<65, 776>>, <<65, 778>>, <<198>>, <<67, 807>>,
     <<69, 768>>, <<69, 769>>, <<69, 770>>, <<69, 776>>, <<73, 768>>, <<73, 769>>, <<73, 770>>, <<73, 776>>,
     <<208>>, <<78, 771>>, <<79, 768>>, <<79, 769>>, <<79, 770>>, <<79, 771>>, <<79, 776>>, <<215>>,
     <<216>>, <<85, 768>>, <<85, 769>>, <<85, 770>>, <<85, 776>>, <<89, 769>>, <<222>>, <<223>>,
     <<97, 768>>, <<97, 769>>, <<97, 770>>, <<97, 771>>, <<97, 776>>, <<97, 778>>, <<230>>, <<99, 807>>,
     <<101, 768>>, <<101, 769>>, <<101, 770>>, <<101, 776>>, <<105, 768>>, <<105, 769>>, <<105, 770>>, <<105, 776>>,
     <<240>>, <<110, 771>>, <<111, 768>>, <<111, 769>>, <<111, 770>>, <<111, 771>>, <<111, 776>>, <<247>>,
     <<248>>, <<117, 768>>, <<117, 769>>, <<117, 770>>, <<117, 776>>, <<121, 769>>, <<254>>, <<121, 776>> >>

\* unicodedata.normalize("NFD", ch) for one character.  Covers U+0000..U+00FF
\* and the characters of the model's alphabet outside it (U+03D2, U+20AC),
\* which have no decomposition.
Decomposition(c) == IF c \in 192..255 THEN LatinDecomp[c - 191] ELSE <<c>>

\* str.lower() for one character: A-Z and the Latin-1 capitals have a
\* lower-case form 32 above; U+03D2 (category Lu) has none and maps to itself.
LowerChar(c) ==
    IF c \in 65..90 THEN c + 32
    ELSE IF c \in (192..222) \ {215} THEN c + 32
    ELSE c

---------------------------------------------------------------------------
(* Generic string operations                                               *)

RECURSIVE Concat(_)
Concat(ss) == IF ss = <<>> THEN <<>> ELSE Head(ss) \o Concat(Tail(ss))

\* s[i .. i+Len(t)-1] = t
OccursAt(t, s, i) ==
    /\ i >= 1
    /\ i + Len(t) - 1 <= Len(s)
    /\ \A j \in 1..Len(t) : s[i + j - 1] = t[j]

RECURSIVE ReplaceFrom(_, _, _, _)
ReplaceFrom(s, i, old, new) ==
    IF i > Len(s) THEN <<>>
    ELSE IF OccursAt(old, s, i) THEN new \o ReplaceFrom(s, i + Len(old), old, new)
    ELSE <<s[i]>> \o ReplaceFrom(s, i + 1, old, new)

\* str.replace(old, new), old not empty: leftmost, non-overlapping
Replace(s, old, new) == ReplaceFrom(s, 1, old, new)

RECURSIVE LStripFrom(_, _)
LStripFrom(s, i) ==
    IF i > Len(s) THEN Len(s) + 1
    ELSE IF IsSpace(s[i]) THEN LStripFrom(s, i + 1) ELSE i

RECURSIVE RStripFrom(_, _)
RStripFrom(s, j) ==
    IF j < 1 THEN 0
    ELSE IF IsSpace(s[j]) THEN RStripFrom(s, j - 1) ELSE j

\* str.strip()
Strip(s) ==
    LET a == LStripFrom(s, 1)
        b == RStripFrom(s, Len(s))
    IN  IF a > b THEN <<>> ELSE SubSeq(s, a, b)

RECURSIVE Lower(_)
\* str.lower()
Lower(s) == IF s = <<>> THEN <<>> ELSE <<LowerChar(Head(s))>> \o Lower(Tail(s))

RECURSIVE SkipS(_, _)
SkipS(s, i) == IF i <= Len(s) /\ s[i] = LetterS THEN SkipS(s, i + 1) ELSE i

RECURSIVE ReSubFrom(_, _)
ReSubFrom(s, i) ==
    IF i > Len(s) THEN <<>>
    ELSE IF s[i] = Backslash /\ i + 1 <= Len(s) /\ s[i + 1] = LetterS
         THEN <<Space>> \o ReSubFrom(s, SkipS(s, i + 1))
    ELSE <<s[i]>> \o ReSubFrom(s, i + 1)

\* re.sub(r"\\s+", " ", s): in a raw string the pattern \\s+ is an escaped
\* backslash followed by one or more letters s
ReSubBackslashS(s) == ReSubFrom(s, 1)

---------------------------------------------------------------------------
(* _decode_literal_hex_sequences                                           *)

\* \\x([0-9a-fA-F]{2}) matches at position i
GroupAt(s, i) ==
    /\ i + 3 <= Len(s)
    /\ s[i] = Backslash
    /\ s[i + 1] = LetterX
    /\ IsHexDigit(s[i + 2])
    /\ IsHexDigit(s[i + 3])

\* k consecutive groups match at position i
MatchAt(s, i, k) == \A j \in 0..(k - 1) : GroupAt(s, i + 4 * j)

\* int(match.group(n), 16) for the group starting at i
ByteAt(s, i) == 16 * HexVal(s[i + 2]) + HexVal(s[i + 3])

MatchBytes(s, i, k) == [j \in 1..k |-> ByteAt(s, i + 4 * (j - 1))]

IsCont(b) == b \in 128..191

RECURSIVE Utf8From(_, _)
\* bytes(bs).decode("utf-8") from index i: [ok, chars]; ok = FALSE is
\* UnicodeDecodeError
Utf8From(bs, i) ==
    IF i > Len(bs) THEN [ok |-> TRUE, chars |-> <<>>]
    ELSE LET b == bs[i] IN
      IF b < 128 THEN
          LET r == Utf8From(bs, i + 1)
          IN  [ok |-> r.ok, chars |-> <<b>> \o r.chars]
      ELSE IF b \in 194..223 /\ i + 1 <= Len(bs) /\ IsCont(bs[i + 1]) THEN
          LET r == Utf8From(bs, i + 2)
          IN  [ok |-> r.ok,
               chars |-> <<(b - 192) * 64 + (bs[i + 1] - 128)>> \o r.chars]
      ELSE IF /\ b \in 224..239
              /\ i + 2 <= Len(bs)
              /\ IsCont(bs[i + 1])
              /\ IsCont(bs[i + 2])
              /\ (b = 224 => bs[i + 1] >= 160)
              /\ (b = 237 => bs[i + 1] <= 159) THEN
          LET r == Utf8From(bs, i + 3)
          IN  [ok |-> r.ok,
               chars |-> <<(b - 224) * 4096 + (bs[i + 1] - 128) * 64
                             + (bs[i + 2] - 128)>> \o r.chars]
      ELSE [ok |-> FALSE, chars |-> <<>>]

Utf8Decode(bs) == Utf8From(bs, 1)

\* decode_sequence without its except clause: UnicodeDecodeError leaves it
decode_sequence_uncaught(s, i, k) ==
    LET d == Utf8Decode(MatchBytes(s, i, k))
    IN  IF d.ok THEN [exc |-> FALSE, val |-> d.chars]
        ELSE [exc |-> TRUE, val |-> <<>>]

\* decode_sequence with an except clause that returns ""
decode_sequence_dropping(s, i, k) ==
    LET d == Utf8Decode(MatchBytes(s, i, k))
    IN  IF d.ok THEN [exc |-> FALSE, val |-> d.chars]
        ELSE [exc |-> FALSE, val |-> <<>>]

\* decode_sequence(match) for the k-group match at i: [exc, val]; the except
\* clause returns match.group(0), so no exception leaves it
decode_sequence(s, i, k) ==
    LET d == Utf8Decode(MatchBytes(s, i, k))
    IN  IF d.ok THEN [exc |-> FALSE, val |-> d.chars]
        ELSE [exc |-> FALSE, val |-> SubSeq(s, i, i + 4 * k - 1)]

RECURSIVE SubSequencesFrom(_, _, _)
SubSequencesFrom(s, i, k) ==
    IF i > Len(s) THEN [exc |-> FALSE, val |-> <<>>]
    ELSE IF MatchAt(s, i, k) THEN
        LET d == decode_sequence(s, i, k) IN
        IF d.exc THEN d
        ELSE LET r == SubSequencesFrom(s, i + 4 * k, k)
             IN  [exc |-> r.exc, val |-> d.val \o r.val]
    ELSE LET r == SubSequencesFrom(s, i + 1, k)
         IN  [exc |-> r.exc, val |-> <<s[i]>> \o r.val]

\* re.sub(<k groups>, decode_sequence, s)
SubSequences(s, k) == SubSequencesFrom(s, 1, k)

RECURSIVE RevertedFrom(_, _, _)
\* the matches of the k-group pass for which decode_sequence returned
\* match.group(0)
RevertedFrom(s, i, k) ==
    IF i > Len(s) THEN {}
    ELSE IF MatchAt(s, i, k) THEN
        (IF Utf8Decode(MatchBytes(s, i, k)).ok THEN {}
         ELSE {SubSeq(s, i, i + 4 * k - 1)}) \cup RevertedFrom(s, i + 4 * k, k)
    ELSE RevertedFrom(s, i + 1, k)

\* decode_single(match): chr(int(match.group(1), 16)); 0..255 never fails
decode_single(s, i) == <<ByteAt(s, i)>>

RECURSIVE SubSinglesFrom(_, _)
SubSinglesFrom(s, i) ==
    IF i > Len(s) THEN <<>>
    ELSE IF GroupAt(s, i) THEN decode_single(s, i) \o SubSinglesFrom(s, i + 4)
    ELSE <<s[i]>> \o SubSinglesFrom(s, i + 1)

\* re.sub(<one group>, decode_single, s)
SubSingles(s) == SubSinglesFrom(s, 1)

\* the whole helper, for a string that raises nothing
decode_literal_hex_sequences(s) ==
    SubSingles(SubSequences(SubSequences(s, 3).val, 2).val)

---------------------------------------------------------------------------
(* _strip_accents                                                          *)

RECURSIVE NFD(_)
\* unicodedata.normalize("NFD", s).  The reordering of adjacent combining
\* marks is left out: all marks of the alphabet are Mn and are dropped next.
NFD(s) == IF s = <<>> THEN <<>> ELSE Decomposition(Head(s)) \o NFD(Tail(s))

\* _strip_accents without the category filter
strip_accents_keeping_marks(s) == NFD(s)

strip_accents(s) == SelectSeq(NFD(s), LAMBDA c : ~IsMn(c))

---------------------------------------------------------------------------
(* _strip_suffixes                                                         *)

\* {"jr", "sr", "ii", "iii", "iv", "v"}
suffix_tokens ==
    { <<106, 114>>, <<115, 114>>, <<105, 105>>, <<105, 105, 105>>,
      <<105, 118>>, <<118>> }

RECURSIVE TokenEnd(_, _)
TokenEnd(s, i) ==
    IF i <= Len(s) /\ ~IsSpace(s[i]) THEN TokenEnd(s, i + 1) ELSE i

RECURSIVE SplitFrom(_, _)
SplitFrom(s, i) ==
    IF i > Len(s) THEN <<>>
    ELSE IF IsSpace(s[i]) THEN SplitFrom(s, i + 1)
    ELSE LET e == TokenEnd(s, i)
         IN  <<SubSeq(s, i, e - 1)>> \o SplitFrom(s, e)

\* str.split(): the maximal runs of non-whitespace characters
Split(s) == SplitFrom(s, 1)

RECURSIVE Join(_)
\* " ".join(tokens)
Join(toks) ==
    IF toks = <<>> THEN <<>>
    ELSE IF Len(toks) = 1 THEN toks[1]
    ELSE toks[1] \o <<Space>> \o Join(Tail(toks))

\* a test that drops every token starting with a suffix string
KeepTokenByPrefix(tok) == \A t \in suffix_tokens : ~OccursAt(t, tok, 1)

\* tok not in suffix_tokens
KeepToken(tok) == tok \notin suffix_tokens

\* _strip_suffixes looking at the last token only
strip_suffixes_last_only(s) ==
    LET toks == Split(s)
    IN  IF toks # <<>> /\ toks[Len(toks)] \in suffix_tokens
        THEN Join(SubSeq(toks, 1, Len(toks) - 1))
        ELSE Join(toks)

strip_suffixes(s) == Join(SelectSeq(Split(s), KeepToken))

---------------------------------------------------------------------------
(* normalize_name_for_blocking, statement by statement                     *)

\* text.lower().strip()
LowerStrip(s) == Strip(Lower(s))

RECURSIVE ReplaceEscapedFrom(_, _)
ReplaceEscapedFrom(s, i) ==
    IF i > Len(s) THEN <<>>
    ELSE IF s[i] = Backslash /\ i < Len(s)
         THEN <<Space>> \o ReplaceEscapedFrom(s, i + 2)
    ELSE <<s[i]>> \o ReplaceEscapedFrom(s, i + 1)

\* a replacement of the backslash and whatever character follows it
ReplaceBackslashAny(s) == ReplaceEscapedFrom(s, 1)

\* text.replace("\\ ", " ")
ReplaceBackslashSpace(s) == Replace(s, <<Backslash, Space>>, <<Space>>)

\* the replacements with the apostrophe one left out
ReplacePunctuationKeepingApostrophe(s) ==
    Replace(
      Replace(
        Replace(
          Replace(s, <<Backslash>>, <<Space>>),
          <<Period>>, <<>>),
        <<Comma>>, <<>>),
      <<Hyphen>>, <<Space>>)

\* the replacements with the backslash removed instead of replaced by a space
ReplacePunctuationDroppingBackslash(s) ==
    Replace(
      Replace(
        Replace(
          Replace(
            Replace(s, <<Backslash>>, <<>>),
            <<Period>>, <<>>),
          <<Comma>>, <<>>),
        <<Hyphen>>, <<Space>>),
      <<Apostrophe>>, <<>>)

\* the five replacements that follow it
ReplacePunctuation(s) ==
    Replace(
      Replace(
        Replace(
          Replace(
            Replace(s, <<Backslash>>, <<Space>>),
            <<Period>>, <<>>),
          <<Comma>>, <<>>),
        <<Hyphen>>, <<Space>>),
      <<Apostrophe>>, <<>>)

\* re.sub(r"\\s+", " ", text).strip()
NormalizeWhitespace(s) == Strip(ReSubBackslashS(s))

\* the function on a string argument
normalize_name_for_blocking(s) ==
    NormalizeWhitespace(
      strip_suffixes(
        NormalizeWhitespace(
          ReplacePunctuation(
            ReplaceBackslashSpace(
              LowerStrip(strip_accents(decode_literal_hex_sequences(s))))))))

---------------------------------------------------------------------------
(* Arguments                                                               *)

MaxPieces == 3

\* The fragments arguments are assembled from
PieceText ==
  << <<74>>,                                  \* 1  J
     <<105>>,                                 \* 2  i
     <<118>>,                                 \* 3  v
     <<32>>,                                  \* 4  space
     <<9>>,                                   \* 5  tab
     <<46>>,                                  \* 6  .
     <<44>>,                                  \* 7  ,
     <<45>>,                                  \* 8  -
     <<39>>,                                  \* 9  '
     <<92>>,                                  \* 10 backslash
     <<92, 120, 90, 90>>,                     \* 11 \xZZ
     <<233>>,                                 \* 12 e-acute
     <<92, 120, 99, 51, 92, 120, 97, 57>>,    \* 13 \xc3\xa9
     <<92, 120, 102, 102>>,                   \* 14 \xff
     <<978>>,                                 \* 15 U+03D2
     <<92, 120, 55, 54>>,                     \* 16 \x76 (v)
     <<92, 120, 101, 50, 92, 120, 56, 50, 92, 120, 97, 99>>  \* 17 \xe2\x82\xac
  >>

\* the pieces of an argument of normalize_name_for_blocking: all but "i",
\* which only spells suffix tokens
PieceIds == (1..Len(PieceText)) \ {2}

PieceSeqs == UNION {[1..n -> PieceIds] : n \in 0..MaxPieces}

Flatten(ps) == Concat([j \in 1..Len(ps) |-> PieceText[ps[j]]])

NonStringTypes == {"NoneType", "int", "list"}

NoReverted == [triples |-> {}, pairs |-> {}]

Init ==
    /\ \/ \E ps \in PieceSeqs :
            /\ pieces = ps
            /\ arg = [type |-> "str", str |-> Flatten(ps)]
       \/ \E t \in NonStringTypes :
            /\ pieces = <<>>
            /\ arg = [type |-> t, str |-> <<>>]
    /\ text = <<>>
    /\ pc = "call"
    /\ raised = FALSE
    /\ reverted = NoReverted
    /\ passIn = <<>>
    /\ sufArg = <<>>
    /\ steps = 0

---------------------------------------------------------------------------
(* Actions                                                                 *)

\* if not isinstance(text, str): return ""
ReturnEmpty ==
    /\ pc = "call"
    /\ arg.type # "str"
    /\ text' = <<>>
    /\ pc' = "done"
    /\ UNCHANGED <<pieces, arg, raised, reverted, passIn, sufArg>>
    /\ UNCHANGED steps

Enter ==
    /\ pc = "call"
    /\ arg.type = "str"
    /\ text' = arg.str
    /\ pc' = "triples"
    /\ UNCHANGED <<pieces, arg, raised, reverted, passIn, sufArg>>
    /\ UNCHANGED steps

\* one re.sub of the decoder with decode_sequence, k groups
DecodePass(k, here, next) ==
    /\ pc = here
    /\ LET r == SubSequences(text, k) IN
         IF r.exc
         THEN /\ raised' = TRUE
              /\ pc' = "done"
              /\ UNCHANGED <<text, reverted>>
         ELSE /\ text' = r.val
              /\ pc' = next
              /\ reverted' = IF k = 3
                             THEN [reverted EXCEPT !.triples = RevertedFrom(text, 1, 3)]
                             ELSE [reverted EXCEPT !.pairs = RevertedFrom(text, 1, 2)]
              /\ UNCHANGED raised
    /\ passIn' = text
    /\ UNCHANGED <<pieces, arg, sufArg>>
    /\ steps' = steps + 1

DecodeTriples == DecodePass(3, "triples", "pairs")

DecodePairs == DecodePass(2, "pairs", "singles")

DecodeSingles ==
    /\ pc = "singles"
    /\ text' = SubSingles(text)
    /\ passIn' = text
    /\ pc' = "accents"
    /\ UNCHANGED <<pieces, arg, raised, reverted, sufArg>>
    /\ steps' = steps + 1

StripAccents ==
    /\ pc = "accents"
    /\ text' = strip_accents(text)
    /\ pc' = "lower"
    /\ UNCHANGED <<pieces, arg, raised, reverted, passIn, sufArg>>
    /\ steps' = steps + 1

LowerAndStrip ==
    /\ pc = "lower"
    /\ text' = LowerStrip(text)
    /\ pc' = "punctuation"
    /\ UNCHANGED <<pieces, arg, raised, reverted, passIn, sufArg>>
    /\ steps' = steps + 1

Punctuation ==
    /\ pc = "punctuation"
    /\ text' = ReplacePunctuation(ReplaceBackslashSpace(text))
    /\ pc' = "whitespace"
    /\ UNCHANGED <<pieces, arg, raised, reverted, passIn, sufArg>>
    /\ steps' = steps + 1

Whitespace ==
    /\ pc = "whitespace"
    /\ text' = NormalizeWhitespace(text)
    /\ pc' = "suffixes"
    /\ UNCHANGED <<pieces, arg, raised, reverted, passIn, sufArg>>
    /\ steps' = steps + 1

StripSuffixes ==
    /\ pc = "suffixes"
    /\ sufArg' = text
    /\ text' = strip_suffixes(text)
    /\ pc' = "cleanup"
    /\ UNCHANGED <<pieces, arg, raised, reverted, passIn>>
    /\ steps' = steps + 1

FinalCleanup ==
    /\ pc = "cleanup"
    /\ text' = NormalizeWhitespace(text)
    /\ pc' = "done"
    /\ UNCHANGED <<pieces, arg, raised, reverted, passIn, sufArg>>
    /\ steps' = steps + 1

Next ==
    \/ ReturnEmpty
    \/ Enter
    \/ DecodeTriples
    \/ DecodePairs
    \/ DecodeSingles
    \/ StripAccents
    \/ LowerAndStrip
    \/ Punctuation
    \/ Whitespace
    \/ StripSuffixes
    \/ FinalCleanup

Spec == Init /\ [][Next]_vars

---------------------------------------------------------------------------
(* _strip_suffixes called on its own                                       *)

MaxSuffixPieces == 6

\* J, i, v, space, tab
SuffixPieceIds == 1..5

SuffixPieceSeqs == UNION {[1..n -> SuffixPieceIds] : n \in 0..MaxSuffixPieces}

InitSuffix ==
    /\ \E ps \in SuffixPieceSeqs :
            /\ pieces = ps
            /\ arg = [type |-> "str", str |-> Flatten(ps)]
            /\ text = Flatten(ps)
    /\ pc = "suffixes"
    /\ raised = FALSE
    /\ reverted = NoReverted
    /\ passIn = <<>>
    /\ sufArg = <<>>
    /\ steps = 0

SpecSuffix == InitSuffix /\ [][StripSuffixes]_vars

---------------------------------------------------------------------------
(* Properties                                                              *)

Returned == pc = "done" /\ ~raised

StringCall == arg.type = "str"

Chars(s) == {s[i] : i \in 1..Len(s)}

Occurs(t, s) == \E i \in 1..(Len(s) + 1) : OccursAt(t, s, i)

HasGroup(s) == \E i \in 1..Len(s) : GroupAt(s, i)

\* no leading or trailing whitespace, and every whitespace character is one
\* space between two non-whitespace characters
SingleSpaced(s) ==
    /\ s # <<>> => ~IsSpace(s[1]) /\ ~IsSpace(s[Len(s)])
    /\ \A i \in 1..Len(s) :
          IsSpace(s[i]) => s[i] = Space /\ (i < Len(s) => ~IsSpace(s[i + 1]))

\* s[i..j] is a token delimited by `delim` characters or the ends of s
IsTokenSpan(s, i, j, delims) ==
    /\ i <= j
    /\ \A k \in i..j : s[k] \notin delims
    /\ i = 1 \/ s[i - 1] \in delims
    /\ j = Len(s) \/ s[j + 1] \in delims

NoSuffixToken(s) ==
    \A i \in 1..Len(s) : \A j \in i..Len(s) :
        IsTokenSpan(s, i, j, {Space}) => SubSeq(s, i, j) \notin suffix_tokens

\* an upper-case letter (category Lu) of the covered range; U+03D2 is one
IsUpperChar(c) == c \in (65..90) \cup ((192..222) \ {215}) \cup {978}

PunctuationFree(s) ==
    Chars(s) \cap {Backslash, Period, Comma, Hyphen, Apostrophe} = {}

\* C1: normalize_name_for_blocking is idempotent: applied to its own result
\* it returns that result unchanged.
C1_Idempotent ==
    (Returned /\ StringCall) => normalize_name_for_blocking(text) = text

\* an argument with a hex escape and a period whose result is not empty
C1_Witness ==
    /\ Returned /\ StringCall
    /\ HasGroup(arg.str)
    /\ Period \in Chars(arg.str)
    /\ text # <<>>
    /\ text # arg.str

IsString(s) == DOMAIN s = 1..Len(s) /\ \A i \in 1..Len(s) : s[i] \in Nat

\* C2: the function never raises; a non-string argument returns "" before any
\* other statement runs; a string argument runs all nine statements that follow
\* the test and returns a string.
C2_Total ==
    /\ ~raised
    /\ (pc = "done" /\ ~StringCall) => text = <<>> /\ steps = 0
    /\ (pc = "done" /\ StringCall) => IsString(text) /\ steps = 9

\* a string call that met an undecodable run and a malformed escape returned
C2_Witness ==
    /\ Returned /\ StringCall
    /\ reverted.pairs # {}
    /\ Occurs(<<Backslash, LetterX, 90, 90>>, arg.str)

\* C3 as stated: the result has none of \ . , - ', no upper-case letter, single
\* spaces only, and no suffix token.
C3_Original ==
    (Returned /\ StringCall) =>
        /\ PunctuationFree(text)
        /\ \A c \in Chars(text) : ~IsUpperChar(c)
        /\ SingleSpaced(text)
        /\ NoSuffixToken(text)

\* C3 amended: as C3, with "no upper-case letter" read as "no character that
\* lower() changes": an upper-case letter without a lower-case form stays.
C3_Amended ==
    (Returned /\ StringCall) =>
        /\ PunctuationFree(text)
        /\ \A c \in Chars(text) : LowerChar(c) = c
        /\ SingleSpaced(text)
        /\ NoSuffixToken(text)

\* a result of two tokens that keeps U+03D2
C3_Witness ==
    /\ Returned /\ StringCall
    /\ 978 \in Chars(text)
    /\ Space \in Chars(text)
    /\ Chars(arg.str) \cap {Period, Comma, Hyphen, Apostrophe, Backslash} # {}

\* the whitespace-delimited tokens of s, as pairs <<first, last>>
TokenSpans(s) ==
    {sp \in (1..Len(s)) \X (1..Len(s)) : IsTokenSpan(s, sp[1], sp[2], WhitespaceChars)}

KeptSpans(s) ==
    {sp \in TokenSpans(s) : SubSeq(s, sp[1], sp[2]) \notin suffix_tokens}

RECURSIVE WidthSum(_)
\* the lengths of the spans of S, each counted with one separator
WidthSum(S) ==
    IF S = {} THEN 0
    ELSE LET sp == CHOOSE x \in S : TRUE
         IN  (sp[2] - sp[1] + 2) + WidthSum(S \ {sp})

\* C4: the result of _strip_suffixes is the argument's whitespace-delimited
\* tokens that are not suffix tokens, in order, joined by single spaces.
C4_WholeTokenRemoval ==
    pc = "cleanup" =>
        LET kept == KeptSpans(sufArg)
            Off(sp) == 1 + WidthSum({q \in kept : q[1] < sp[1]})
        IN  /\ Len(text) = IF kept = {} THEN 0 ELSE WidthSum(kept) - 1
            /\ \A sp \in kept :
                  /\ OccursAt(SubSeq(sufArg, sp[1], sp[2]), text, Off(sp))
                  /\ Off(sp) > 1 => text[Off(sp) - 1] = Space

\* a suffix token removed from between two kept tokens, one of which starts
\* with a suffix string
C4_Witness ==
    /\ pc = "cleanup"
    /\ \E a \in KeptSpans(sufArg) : \E b \in KeptSpans(sufArg) :
        \E r \in TokenSpans(sufArg) \ KeptSpans(sufArg) :
            /\ a[1] < r[1] /\ r[1] < b[1]
            /\ sufArg[b[1]] = 118 /\ b[2] > b[1]
    /\ Len(text) < Len(sufArg)

\* pieces 12 (e-acute) and 13 (\xc3\xa9) are the two spellings of one letter
EscapedAccent == {13}
DirectAccent == {12}

\* pieces that start or end with a \xHH group
GroupPieces == {13, 14, 16, 17}

\* every escaped accent stands apart from the other \xHH groups
AccentsApart(ps) ==
    \A j \in 1..Len(ps) :
        ps[j] \in EscapedAccent =>
            /\ j > 1 => ps[j - 1] \notin GroupPieces
            /\ j < Len(ps) => ps[j + 1] \notin GroupPieces

\* the same text with each accented letter written as its base letter e
PlainText(ps) ==
    Concat([j \in 1..Len(ps) |->
              IF ps[j] \in EscapedAccent \cup DirectAccent THEN <<101>>
              ELSE PieceText[ps[j]]])

\* C5: an accented letter written as the character or as the escaped pair of
\* its UTF-8 bytes gives the result of the text written with the base letter.
C5_EncodingsCollapse ==
    (Returned /\ StringCall /\ AccentsApart(pieces)) =>
        text = normalize_name_for_blocking(PlainText(pieces))

\* both spellings in one argument, after a capital letter
C5_Witness ==
    /\ Returned /\ StringCall /\ AccentsApart(pieces)
    /\ pieces = <<1, 13, 12>>
    /\ text = <<106, 101, 101>>

IsAlnum(c) == c \in (48..57) \cup (65..90) \cup (97..122)

\* a backslash, an x and two letters or digits that are not both hex digits
FragmentAt(s, i) ==
    /\ i + 3 <= Len(s)
    /\ s[i] = Backslash
    /\ s[i + 1] = LetterX
    /\ IsAlnum(s[i + 2]) /\ IsAlnum(s[i + 3])
    /\ ~(IsHexDigit(s[i + 2]) /\ IsHexDigit(s[i + 3]))

Fragments(s) == {i \in 1..Len(s) : FragmentAt(s, i)}

\* C6 as stated: the malformed fragment is in the result, lower-cased, with
\* its backslash.
C6_Original ==
    (Returned /\ StringCall) =>
        \A i \in Fragments(arg.str) :
            Occurs(<<Backslash, LetterX, LowerChar(arg.str[i + 2]),
                     LowerChar(arg.str[i + 3])>>, text)

\* C6 amended: the decoder returns the malformed fragment unchanged; in the
\* result its backslash has become a token boundary and the x and the two
\* characters, lower-cased, start a token; the result holds no backslash.
C6_Amended ==
    /\ pc = "accents" =>
          \A i \in Fragments(arg.str) : Occurs(SubSeq(arg.str, i, i + 3), text)
    /\ (Returned /\ StringCall) =>
          \A i \in Fragments(arg.str) :
              /\ Backslash \notin Chars(text)
              /\ \E p \in 1..Len(text) :
                    /\ OccursAt(<<LetterX, LowerChar(arg.str[i + 2]),
                                  LowerChar(arg.str[i + 3])>>, text, p)
                    /\ p = 1 \/ text[p - 1] = Space

\* "J\xZZJ" has returned "j xzzj"
C6_Witness ==
    /\ Returned /\ StringCall
    /\ pieces = <<1, 11, 1>>
    /\ text = <<106, 32, 120, 122, 122, 106>>

\* k groups at i whose bytes are one k-byte UTF-8 character
ValidCharAt(s, i, k) ==
    /\ MatchAt(s, i, k)
    /\ LET d == Utf8Decode(MatchBytes(s, i, k))
       IN  d.ok /\ Len(d.chars) = 1

CharAt(s, i, k) == Utf8Decode(MatchBytes(s, i, k)).chars[1]

\* C7: every pair or triple of adjacent \xHH groups that encodes one UTF-8
\* character is in the decoder's result as that character.
C7_NoFragmentation ==
    (pc = "accents" /\ StringCall) =>
        \A i \in 1..Len(arg.str) : \A k \in {2, 3} :
            ValidCharAt(arg.str, i, k) => CharAt(arg.str, i, k) \in Chars(text)

CountGroups(s) == Cardinality({i \in 1..Len(s) : GroupAt(s, i)})

AllReverted == reverted.triples \cup reverted.pairs

\* C8 as stated: a run that failed to decode is in the decoder's result as its
\* original literal text.
C8_Original ==
    (pc = "accents" /\ StringCall) => \A m \in AllReverted : Occurs(m, text)

\* C8 amended: a failing run stays literal through its own pass only; the
\* single-group pass then replaces every \xHH group left in the text, those of
\* the failing run included, by one character each.
C8_Amended ==
    /\ pc = "pairs" => \A m \in reverted.triples : Occurs(m, text)
    /\ pc = "singles" => \A m \in reverted.pairs : Occurs(m, text)
    /\ pc = "accents" =>
          /\ \A m \in reverted.pairs : Occurs(m, passIn)
          /\ Len(text) = Len(passIn) - 3 * CountGroups(passIn)

\* "\xff\xff" failed as a pair and was returned as two characters U+00FF
C8_Witness ==
    /\ pc = "accents"
    /\ reverted.pairs = {<<92, 120, 102, 102, 92, 120, 102, 102>>}
    /\ text = <<255, 255>>

\* C9: the value handed to _strip_suffixes has single spaces only and no
\* leading or trailing whitespace.
C9_CollapsedBeforeSuffixes ==
    (pc = "suffixes" /\ StringCall) => SingleSpaced(text)

\* the function with the statement text.replace("\\ ", " ") taken out
NormalizeWithoutStep5(s) ==
    NormalizeWhitespace(
      strip_suffixes(
        NormalizeWhitespace(
          ReplacePunctuation(
            LowerStrip(strip_accents(decode_literal_hex_sequences(s)))))))

\* C10: without the "backslash space" replacement the result is the same.
C10_Step5Redundant ==
    (Returned /\ StringCall) => text = NormalizeWithoutStep5(arg.str)

\* "\ J": the replacement has acted, and the result is "j"
C10_Witness ==
    /\ Returned /\ StringCall
    /\ arg.str = <<Backslash, Space, 74>>
    /\ text = <<106>>

=============================================================================
